---- MODULE Spec2Model ----
(***************************************************************************)
(* A model of the fixpanic CLI: the agent install / uninstall / upgrade    *)
(* commands acting on one host (binary file, temp file, config file,       *)
(* service unit, agent processes), and the allow/deny rule evaluation.     *)
(* Every CLI invocation is a run; a run walks through the statements of    *)
(* its command, and the outcome of every system call (HTTP, file system,   *)
(* systemctl, signals) is chosen by the environment.                       *)
(***************************************************************************)
EXTENDS Integers, Sequences, FiniteSets, TLC

VARIABLES
    bin,        \* the file at GetBinaryPath()
    tmp,        \* the file at GetBinaryPath() + ".tmp"
    config,     \* the file at GetConfigPath()
    svcFile,    \* TRUE iff the systemd unit file exists
    svcPid,     \* main pid of the active service, 0 when the service is not active
    svcEnabled, \* TRUE iff the unit is enabled
    dirs,       \* which of LibDir, ConfigDir, LogDir exist
    systemd,    \* IsSystemdAvailable() on this host
    latest,     \* the version the release host serves as "latest"
    procs,      \* agent processes: pid -> "absent" | "running" | "terminating"
    run,        \* the CLI invocations: run id -> its locals and position
    eval,       \* one evaluation of the security rules: rules, command, verdict
    current,    \* the file at getCurrentBinaryPath(), the CLI's own binary
    backup,     \* the file at currentPath + ".backup"
    newBinary,  \* the new CLI binary in the temporary directory
    up,         \* the "fixpanic upgrade" invocation: its locals and position
    plat        \* one computation of the platform's download URL and binary name

\* What "fixpanic upgrade" and the platform functions act on.
cliVars == <<current, backup, newBinary, up, plat>>

vars == <<bin, tmp, config, svcFile, svcPid, svcEnabled, dirs, systemd,
          latest, procs, run, eval, cliVars>>

hostVars == <<bin, tmp, config, svcFile, svcPid, svcEnabled, dirs, systemd,
              latest, procs, eval, cliVars>>

----------------------------------------------------------------------------
\* Bounds of the model.

\* Number of write calls io.Copy needs for one binary.
NumChunks == 2
\* Number of releases the release host publishes over time.
MaxVersion == 2
\* Number of process ids the host hands out.
MaxPid == 2

Runs == {"A", "B"}
Versions == 1..MaxVersion
Pids == 1..MaxPid
AllDirs == {"lib", "config", "log"}

\* Values of the --agent-id and --api-key flags (strings as character sequences).
AgentIDs == {<<>>, <<"a">>, <<"b", "b">>}
APIKeys == {<<>>, <<"k">>}
\* Values of --socket-server and of viper's socket_server.
SocketFlags == {<<>>, <<"s">>}
ViperSockets == {<<>>, <<"v">>}

----------------------------------------------------------------------------
\* Files.

NoFile == [exists |-> FALSE, data |-> <<>>, mode |-> "none"]
File(d, m) == [exists |-> TRUE, data |-> d, mode |-> m]

\* The complete binary of release v, as the chunks io.Copy writes.
Binary(v) == [i \in 1..NumChunks |-> v]
IsCompleteBinary(f) == f.exists /\ \E v \in Versions : f.data = Binary(v)

\* open(path, O_CREATE|O_TRUNC, perm): perm is used only when the file is created.
OpenTrunc(f, perm) == IF f.exists THEN [f EXCEPT !.data = <<>>] ELSE File(<<>>, perm)

\* write(fd, s) at offset off (0-based); a gap is filled with hole.
WriteAt(d, off, s, hole) ==
    LET end == off + Len(s)
        n == IF end > Len(d) THEN end ELSE Len(d)
    IN [i \in 1..n |-> IF i > off /\ i <= end THEN s[i - off]
                       ELSE IF i <= Len(d) THEN d[i] ELSE hole]

----------------------------------------------------------------------------
\* Configuration (internal/config).

DefaultSocketServer == <<"d">>

\* DefaultConfig with the fields install sets.
DefaultConfig == [id |-> <<>>, key |-> <<>>, sock |-> DefaultSocketServer]

\* The configuration install builds from its flags.
InstallConfig(id, key, flag, viper) ==
    [DefaultConfig EXCEPT !.id = id, !.key = key,
        !.sock = IF flag # <<>> THEN flag ELSE IF viper # <<>> THEN viper ELSE @]

\* Validate without the check of the API key.
ValidateSkipKey(c) ==
    IF c.id = <<>> THEN "agent ID is required"
    ELSE IF c.sock = <<>> THEN "socket server address is required"
    ELSE "nil"

\* AgentConfig.Validate (Agent.ID, Agent.APIKey, Agent.SocketServer).
Validate(c) ==
    IF c.id = <<>> THEN "agent ID is required"
    ELSE IF c.key = <<>> THEN "agent API key is required"
    ELSE IF c.sock = <<>> THEN "socket server address is required"
    ELSE "nil"

\* AgentConfig.Validate (App.AgentID, App.APIKey).
ValidateApp(c) ==
    IF c.id = <<>> THEN "agent ID is required"
    ELSE IF c.key = <<>> THEN "agent API key is required"
    ELSE "nil"

\* yaml.Marshal: the bytes of the file, field after field.
Marshal(c) == <<"id:">> \o c.id \o <<"key:">> \o c.key \o <<"sock:">> \o c.sock

Configs == {InstallConfig(i, k, f, v) :
                i \in AgentIDs, k \in APIKeys, f \in SocketFlags, v \in ViperSockets}

----------------------------------------------------------------------------
\* Security rules (cmd/agent_validate.go).

\* Longest rule list and longest command of the model.
MaxRules == 2
MaxCmdLen == 2

Chars == {"l", "r"}
RECURSIVE StringsUpTo(_)
StringsUpTo(n) ==
    IF n = 0 THEN {<<>>}
    ELSE StringsUpTo(n - 1) \cup
         {Append(w, c) : w \in {x \in StringsUpTo(n - 1) : Len(x) = n - 1}, c \in Chars}
Commands == StringsUpTo(MaxCmdLen)

\* The regular expressions of the model: a literal, anchored ("^r") or not
\* ("r"), and one that does not compile ("(").
Lit(a, l) == [valid |-> TRUE, anchor |-> a, lit |-> l]
BadPattern == [valid |-> FALSE, anchor |-> FALSE, lit |-> <<>>]
Patterns == {Lit(TRUE, <<"r">>), Lit(FALSE, <<"r">>), Lit(TRUE, <<"l">>),
             Lit(FALSE, <<"l", "r">>), BadPattern}

RECURSIVE PatternLists(_)
PatternLists(n) ==
    IF n = 0 THEN {<<>>}
    ELSE PatternLists(n - 1) \cup
         {Append(w, q) : w \in {x \in PatternLists(n - 1) : Len(x) = n - 1}, q \in Patterns}

\* l occurs in s at position i.
OccursAt(l, s, i) == i + Len(l) - 1 <= Len(s) /\ SubSeq(s, i, i + Len(l) - 1) = l

\* matched, _ := regexp.MatchString(pattern, command): FALSE on a pattern
\* that does not compile.
MatchString(pattern, command) ==
    /\ pattern.valid
    /\ IF pattern.anchor THEN OccursAt(pattern.lit, command, 1)
       ELSE \E i \in 1..(Len(command) + 1) : OccursAt(pattern.lit, command, i)

\* The range loop over a pattern list from index i: some pattern matches.
RECURSIVE AnyMatch(_, _, _)
AnyMatch(list, i, command) ==
    IF i > Len(list) THEN FALSE
    ELSE IF MatchString(list[i], command) THEN TRUE
    ELSE AnyMatch(list, i + 1, command)

\* The allow loop alone, the deny list not consulted.
isCommandAllowedAllowFirst(rules, command) ==
    IF AnyMatch(rules.allow, 1, command) THEN TRUE
    ELSE FALSE

\* isCommandAllowed: the deny loop, then the allow loop, then deny by default.
isCommandAllowed(rules, command) ==
    IF AnyMatch(rules.deny, 1, command) THEN FALSE
    ELSE IF AnyMatch(rules.allow, 1, command) THEN TRUE
    ELSE FALSE

NoEval == [phase |-> "none", deny |-> <<>>, allow |-> <<>>, command |-> <<>>,
           allowed |-> FALSE]

\* runAgentValidate's test of one command against the loaded rules.
EvaluateRules ==
    /\ eval.phase = "loaded"
    /\ eval' = [eval EXCEPT !.phase = "done",
                   !.allowed = isCommandAllowed([deny |-> eval.deny, allow |-> eval.allow],
                                                eval.command)]
    /\ UNCHANGED <<bin, tmp, config, svcFile, svcPid, svcEnabled, dirs, systemd,
                   latest, procs, run, cliVars>>

----------------------------------------------------------------------------
\* Runs.

\* No process spawned by the run.
NoSpawn == [cmdline |-> <<>>, setsid |-> FALSE, setpgid |-> FALSE]

IdleRun == [cmd |-> "none", pc |-> "idle", force |-> FALSE, result |-> "none",
            fd |-> "closed", off |-> 0, body |-> 0, cfg |-> DefaultConfig,
            verr |-> "none",
            gets |-> 0, warnings |-> {}, prompted |-> FALSE, touched |-> {},
            found |-> {}, todo |-> {}, sent |-> {}, stopped |-> {}, wasRunning |-> FALSE,
            ensured |-> FALSE, started |-> FALSE, launch |-> "none",
            stopRes |-> "none", startRes |-> "none", spawned |-> NoSpawn,
            oldFound |-> {}, oldStopped |-> {},
            pre |-> [bin |-> NoFile, config |-> NoFile, svcFile |-> FALSE,
                     dirs |-> {}, latest |-> 0, svcPid |-> 0]]

Snapshot == [bin |-> bin, config |-> config, svcFile |-> svcFile, dirs |-> dirs,
             latest |-> latest, svcPid |-> svcPid]

\* The run returns: deferred closes run, the result is what RunE returns.
Return(rec, res) == [rec EXCEPT !.pc = "done", !.result = res, !.fd = "closed"]
Warn(rec, w) == [rec EXCEPT !.warnings = @ \cup {w}]
Goto(rec, p) == [rec EXCEPT !.pc = p]

At(r, c, p) == run[r].cmd = c /\ run[r].pc = p

\* What a change of the temp path does to the descriptors the runs hold on it.
FdAfterRemove(f) == IF f = "tmp" THEN "gone" ELSE f
FdAfterRename(f) == IF f = "tmp" THEN "bin" ELSE IF f = "bin" THEN "gone" ELSE f

\* run with run r replaced by rec, after the temp path was removed / renamed
\* to the binary path: the other runs' descriptors follow the file.
WithFdsRemoved(r, rec) ==
    [q \in Runs |-> IF q = r THEN rec ELSE [run[q] EXCEPT !.fd = FdAfterRemove(@)]]
WithFdsRenamed(r, rec) ==
    [q \in Runs |-> IF q = r THEN rec ELSE [run[q] EXCEPT !.fd = FdAfterRename(@)]]

----------------------------------------------------------------------------
\* Agent processes and the service.

SvcActive == svcPid # 0
FreePids == {p \in Pids : procs[p] = "absent"}
NewPid == CHOOSE p \in FreePids : \A q \in FreePids : p <= q

\* systemctl stop: the service's process is stopped and the unit is inactive.
AfterSvcStop == IF SvcActive THEN [procs EXCEPT ![svcPid] = "absent"] ELSE procs

----------------------------------------------------------------------------
\* Manager.Download / Manager.DownloadFixPanicAgent: GET, create the temp
\* file, copy the body, chmod, rename.

\* Where the caller goes on after a successful download.
AfterDownload(rec) ==
    IF rec.cmd = "install" THEN Goto(rec, "cfg_build") ELSE Goto(rec, "up_verify")

\* http.Get of the release URL and the check of the status code.
DlGet(r) ==
    /\ run[r].pc = "dl_get"
    /\ \/ \E e \in {"failed to download binary", "failed to download binary: HTTP status"} :
            run' = [run EXCEPT ![r] = Return([@ EXCEPT !.gets = @ + 1], e)]
       \/ run' = [run EXCEPT ![r] =
                    [@ EXCEPT !.gets = @ + 1, !.body = latest, !.pc = "dl_create"]]
    /\ UNCHANGED hostVars

\* The body written straight to the binary path, without a temp file.
DlCreateInPlace(r) ==
    /\ run[r].pc = "dl_create"
    /\ bin' = OpenTrunc(bin, "0644")
    /\ run' = [run EXCEPT ![r] = [@ EXCEPT !.fd = "bin", !.off = 0, !.pc = "dl_copy"]]
    /\ UNCHANGED <<cliVars, eval, tmp, config, svcFile, svcPid, svcEnabled, dirs, systemd,
                   latest, procs>>

\* os.Create of the temp file in the binary's directory.
DlCreate(r) ==
    /\ run[r].pc = "dl_create"
    /\ \/ /\ run' = [run EXCEPT ![r] = Return(@, "failed to create temporary file")]
          /\ UNCHANGED hostVars
       \/ /\ "lib" \in dirs
          /\ tmp' = OpenTrunc(tmp, "0644")
          /\ run' = [run EXCEPT ![r] = [@ EXCEPT !.fd = "tmp", !.off = 0, !.pc = "dl_copy"]]
          /\ UNCHANGED <<cliVars, eval, bin, config, svcFile, svcPid, svcEnabled, dirs, systemd,
                         latest, procs>>

\* A failed write that does not end the download.
DlCopyKeepsGoing(r) ==
    /\ run[r].pc = "dl_copy"
    /\ \/ /\ tmp' = IF run[r].fd = "tmp"
                    THEN [tmp EXCEPT !.data = WriteAt(@, run[r].off, <<run[r].body>>, 0)]
                    ELSE tmp
          /\ run' = [run EXCEPT ![r] =
                      [@ EXCEPT !.off = @ + 1,
                                !.pc = IF run[r].off + 1 = NumChunks THEN "dl_chmod"
                                       ELSE "dl_copy"]]
       \/ /\ tmp' = tmp
          /\ run' = [run EXCEPT ![r] = Goto(@, "dl_chmod")]
    /\ UNCHANGED <<cliVars, eval, bin, config, svcFile, svcPid, svcEnabled, dirs, systemd,
                   latest, procs>>

\* One write of io.Copy through the run's descriptor.
DlCopy(r) ==
    /\ run[r].pc = "dl_copy"
    /\ \/ /\ LET d == <<run[r].body>>
                 o == run[r].off
             IN /\ tmp' = IF run[r].fd = "tmp"
                          THEN [tmp EXCEPT !.data = WriteAt(@, o, d, 0)] ELSE tmp
                /\ bin' = IF run[r].fd = "bin"
                          THEN [bin EXCEPT !.data = WriteAt(@, o, d, 0)] ELSE bin
                /\ run' = [run EXCEPT ![r] =
                            [@ EXCEPT !.off = o + 1,
                                      !.pc = IF o + 1 = NumChunks THEN "dl_chmod" ELSE "dl_copy"]]
          /\ UNCHANGED <<cliVars, eval, config, svcFile, svcPid, svcEnabled, dirs, systemd, latest, procs>>
       \/ /\ tmp' = NoFile
          /\ run' = WithFdsRemoved(r, Return(run[r], "failed to save binary"))
          /\ UNCHANGED <<cliVars, eval, bin, config, svcFile, svcPid, svcEnabled, dirs, systemd,
                         latest, procs>>

\* os.Chmod(tempFile, 0755); the temp file is removed on failure.
DlChmod(r) ==
    /\ run[r].pc = "dl_chmod"
    /\ \/ /\ tmp.exists
          /\ tmp' = [tmp EXCEPT !.mode = "0755"]
          /\ run' = [run EXCEPT ![r] = Goto(@, "dl_rename")]
       \/ /\ tmp' = NoFile
          /\ run' = WithFdsRemoved(r, Return(run[r], "failed to make binary executable"))
    /\ UNCHANGED <<cliVars, eval, bin, config, svcFile, svcPid, svcEnabled, dirs, systemd, latest, procs>>

\* os.Rename(tempFile, binaryPath); the temp file is removed on failure.
DlRename(r) ==
    /\ run[r].pc = "dl_rename"
    /\ \/ /\ tmp.exists
          /\ bin' = tmp
          /\ tmp' = NoFile
          /\ run' = WithFdsRenamed(r, [AfterDownload(run[r]) EXCEPT !.fd = "closed"])
       \/ /\ tmp' = NoFile
          /\ bin' = bin
          /\ run' = WithFdsRemoved(r, Return(run[r], "failed to move binary to final location"))
    /\ UNCHANGED <<cliVars, eval, config, svcFile, svcPid, svcEnabled, dirs, systemd, latest, procs>>

----------------------------------------------------------------------------
\* fixpanic agent install (runAgentInstall).

\* PlatformInfo.CreateDirectories: MkdirAll of LibDir, ConfigDir, LogDir in
\* this order; made(n) is what exists after the first n succeeded.
DirOrder == <<"lib", "config", "log">>
DirsMade(n) == dirs \cup {DirOrder[i] : i \in 1..n}

\* GetPlatformInfo and CreateDirectories.
InstallBegin(r) ==
    /\ run[r].pc = "idle"
    /\ \E f \in BOOLEAN :
        LET rec == [IdleRun EXCEPT !.cmd = "install", !.force = f, !.pre = Snapshot]
        IN \/ /\ run' = [run EXCEPT ![r] = Return(rec, "failed to get platform info")]
              /\ dirs' = dirs
           \/ \E n \in 0..(Len(DirOrder) - 1) :
                /\ dirs' = DirsMade(n)
                /\ run' = [run EXCEPT ![r] = Return(rec, "failed to create directories")]
           \/ /\ dirs' = DirsMade(Len(DirOrder))
              /\ run' = [run EXCEPT ![r] = Goto(rec, "in_check")]
    /\ UNCHANGED <<cliVars, eval, bin, tmp, config, svcFile, svcPid, svcEnabled, systemd, latest, procs>>

\* Manager.IsInstalled: os.Stat of the binary path.
IsInstalled == bin.exists

\* The installed check left out.
InstallCheckAlways(r) ==
    /\ At(r, "install", "in_check")
    /\ run' = [run EXCEPT ![r] = Goto(@, "dl_get")]
    /\ UNCHANGED hostVars

\* The installed check: an error unless --force.
InstallCheck(r) ==
    /\ At(r, "install", "in_check")
    /\ run' = [run EXCEPT ![r] =
                IF IsInstalled /\ ~run[r].force
                THEN Return(@, "agent is already installed")
                ELSE Goto(@, "dl_get")]
    /\ UNCHANGED hostVars

\* DefaultConfig, the flags, Validate.
InstallConfigure(r) ==
    /\ At(r, "install", "cfg_build")
    /\ \E i \in AgentIDs, k \in APIKeys, f \in SocketFlags, v \in ViperSockets :
        LET c == InstallConfig(i, k, f, v)
        IN run' = [run EXCEPT ![r] =
                    IF Validate(c) # "nil"
                    THEN Return([@ EXCEPT !.cfg = c, !.verr = Validate(c)],
                                "invalid configuration")
                    ELSE [@ EXCEPT !.cfg = c, !.verr = Validate(c), !.pc = "cfg_open"]]
    /\ UNCHANGED hostVars

\* Where install goes on after the configuration is saved.
AfterSave(rec) == IF systemd THEN Goto(rec, "svc_uninstall") ELSE Return(rec, "nil")

\* SaveConfig: MkdirAll of the directory, then os.WriteFile's open.
SaveConfigOpen(r) ==
    /\ At(r, "install", "cfg_open")
    /\ \/ /\ \E e \in {"failed to create config directory", "failed to write config file"} :
                run' = [run EXCEPT ![r] = Return(@, e)]
          /\ UNCHANGED <<cliVars, eval, config, dirs>>
       \/ /\ dirs' = dirs \cup {"config"}
          /\ config' = OpenTrunc(config, "0600")
          /\ run' = [run EXCEPT ![r] = Goto(@, "cfg_write")]
    /\ UNCHANGED <<cliVars, eval, bin, tmp, svcFile, svcPid, svcEnabled, systemd, latest, procs>>

\* SaveConfig: os.WriteFile's write and close.
SaveConfigWrite(r) ==
    /\ At(r, "install", "cfg_write")
    /\ \/ /\ run' = [run EXCEPT ![r] = Return(@, "failed to write config file")]
          /\ UNCHANGED <<config>>
       \/ /\ config.exists
          /\ config' = [config EXCEPT !.data = WriteAt(@, 0, Marshal(run[r].cfg), "")]
          /\ run' = [run EXCEPT ![r] = AfterSave(@)]
    /\ UNCHANGED <<cliVars, eval, bin, tmp, svcFile, svcPid, svcEnabled, dirs, systemd, latest, procs>>

\* service.Manager.Uninstall: Stop (a failure is only printed), remove the
\* unit file (absent: nil), daemon-reload. The host after it, and its error.
SvcUninstallHost(stopOk, rmOk) ==
    /\ procs' = IF stopOk THEN AfterSvcStop ELSE procs
    /\ svcPid' = IF stopOk THEN 0 ELSE svcPid
    /\ svcFile' = (svcFile /\ ~rmOk)
SvcUninstallFails(rmOk, reloadOk) == svcFile /\ (~rmOk \/ ~reloadOk)

\* The old service is removed first; a failure is a warning.
InstallSvcUninstall(r) ==
    /\ At(r, "install", "svc_uninstall")
    /\ \E stopOk, rmOk, reloadOk \in BOOLEAN :
        /\ SvcUninstallHost(stopOk, rmOk)
        /\ run' = [run EXCEPT ![r] =
                    Goto(IF SvcUninstallFails(rmOk, reloadOk)
                         THEN Warn(@, "failed to remove old service") ELSE @,
                         "svc_install")]
    /\ UNCHANGED <<cliVars, eval, bin, tmp, config, svcEnabled, dirs, systemd, latest>>

\* A failed service installation returned as the command's error.
InstallSvcInstallAborts(r) ==
    /\ At(r, "install", "svc_install")
    /\ \/ /\ svcFile' = svcFile
          /\ run' = [run EXCEPT ![r] =
                      Return(Warn(@, "failed to install systemd service"),
                             "failed to install systemd service")]
       \/ /\ svcFile' = TRUE
          /\ run' = [run EXCEPT ![r] = Goto(@, "svc_enable")]
    /\ UNCHANGED <<cliVars, eval, bin, tmp, config, svcPid, svcEnabled, dirs, systemd, latest, procs>>

\* service.Manager.Install: generate the unit, write it, daemon-reload.
InstallSvcInstall(r) ==
    /\ At(r, "install", "svc_install")
    /\ \/ /\ svcFile' = svcFile
          /\ run' = [run EXCEPT ![r] =
                      Return(Warn(@, "failed to install systemd service"), "nil")]
       \/ /\ svcFile' = TRUE
          /\ \/ run' = [run EXCEPT ![r] =
                          Return(Warn(@, "failed to install systemd service"), "nil")]
             \/ run' = [run EXCEPT ![r] = Goto(@, "svc_enable")]
    /\ UNCHANGED <<cliVars, eval, bin, tmp, config, svcPid, svcEnabled, dirs, systemd, latest, procs>>

\* service.Manager.Enable.
InstallSvcEnable(r) ==
    /\ At(r, "install", "svc_enable")
    /\ \/ /\ svcEnabled' = svcEnabled
          /\ run' = [run EXCEPT ![r] = Goto(Warn(@, "failed to enable service"), "svc_start")]
       \/ /\ svcFile
          /\ svcEnabled' = TRUE
          /\ run' = [run EXCEPT ![r] = Goto(@, "svc_start")]
    /\ UNCHANGED <<cliVars, eval, bin, tmp, config, svcFile, svcPid, dirs, systemd, latest, procs>>

\* systemctl start: an inactive unit gets a new main process.
SvcStartOk ==
    /\ svcFile
    /\ IF SvcActive THEN UNCHANGED <<svcPid, procs>>
       ELSE /\ FreePids # {}
            /\ svcPid' = NewPid
            /\ procs' = [procs EXCEPT ![NewPid] = "running"]

\* service.Manager.Start, last step of install.
InstallSvcStart(r) ==
    /\ At(r, "install", "svc_start")
    /\ \/ /\ UNCHANGED <<svcPid, procs>>
          /\ run' = [run EXCEPT ![r] = Return(Warn(@, "failed to start service"), "nil")]
       \/ /\ SvcStartOk
          /\ run' = [run EXCEPT ![r] = Return(@, "nil")]
    /\ UNCHANGED <<cliVars, eval, bin, tmp, config, svcFile, svcEnabled, dirs, systemd, latest>>

----------------------------------------------------------------------------
\* fixpanic agent uninstall (runAgentUninstall).

\* GetPlatformInfo.
UninstallBegin(r) ==
    /\ run[r].pc = "idle"
    /\ \E f \in BOOLEAN :
        LET rec == [IdleRun EXCEPT !.cmd = "uninstall", !.force = f, !.pre = Snapshot]
        IN \/ run' = [run EXCEPT ![r] = Return(rec, "failed to get platform info")]
           \/ run' = [run EXCEPT ![r] = Goto(rec, "un_check")]
    /\ UNCHANGED hostVars

\* Manager.IsFixPanicAgentInstalled: os.Stat of the binary path.
IsFixPanicAgentInstalled == bin.exists

\* The installed check left out.
UninstallCheckSkip(r) ==
    /\ At(r, "uninstall", "un_check")
    /\ \E yes \in BOOLEAN :
          run' = [run EXCEPT ![r] =
                    IF yes \/ run[r].force
                    THEN Goto([@ EXCEPT !.prompted = ~run[r].force],
                              IF systemd THEN "un_service" ELSE "un_files")
                    ELSE Return([@ EXCEPT !.prompted = TRUE], "nil")]
    /\ UNCHANGED hostVars

\* The installed check, then the confirmation prompt unless --force.
UninstallCheck(r) ==
    /\ At(r, "uninstall", "un_check")
    /\ LET next == IF systemd THEN "un_service" ELSE "un_files"
       IN IF ~IsFixPanicAgentInstalled
          THEN run' = [run EXCEPT ![r] = Return(@, "nil")]
          ELSE IF run[r].force
          THEN run' = [run EXCEPT ![r] = Goto(@, next)]
          ELSE \E yes \in BOOLEAN :
                run' = [run EXCEPT ![r] =
                          IF yes THEN Goto([@ EXCEPT !.prompted = TRUE], next)
                          ELSE Return([@ EXCEPT !.prompted = TRUE], "nil")]
    /\ UNCHANGED hostVars

\* Stop the active service, then service.Manager.Uninstall.
UninstallService(r) ==
    /\ At(r, "uninstall", "un_service")
    /\ \E stopOk, rmOk, reloadOk \in BOOLEAN :
        /\ SvcUninstallHost(stopOk, rmOk)
        /\ run' = [run EXCEPT ![r] =
                    Goto([(IF SvcUninstallFails(rmOk, reloadOk)
                           THEN Warn(@, "failed to uninstall service") ELSE @)
                          EXCEPT !.touched = @ \cup {"service"}],
                         "un_files")]
    /\ UNCHANGED <<cliVars, eval, bin, tmp, config, svcEnabled, dirs, systemd, latest>>

\* What removing the binary does to the descriptors held on it.
FdAfterUnlinkBin(f) == IF f = "bin" THEN "gone" ELSE f

\* RemoveFixPanicAgent, os.Remove of the config file, os.Remove of each
\* directory (which succeeds on an empty directory only).
UninstallFiles(r) ==
    /\ At(r, "uninstall", "un_files")
    /\ \E rmBin, rmCfg \in BOOLEAN, gone \in SUBSET dirs :
        /\ bin' = IF rmBin THEN NoFile ELSE bin
        /\ config' = IF rmCfg THEN NoFile ELSE config
        /\ "lib" \in gone => ~bin'.exists /\ ~tmp.exists
        /\ "config" \in gone => ~config'.exists
        /\ dirs' = dirs \ gone
        /\ run' = [q \in Runs |->
                    IF q = r
                    THEN Return([(IF bin'.exists
                                  THEN Warn(run[r], "failed to remove binary")
                                  ELSE run[r])
                                 EXCEPT !.touched = @ \cup {"files"}], "nil")
                    ELSE IF rmBin THEN [run[q] EXCEPT !.fd = FdAfterUnlinkBin(@)]
                    ELSE run[q]]
    /\ UNCHANGED <<cliVars, eval, tmp, svcFile, svcPid, svcEnabled, systemd, latest, procs>>

----------------------------------------------------------------------------
\* Versions as the agent binary and the release API print them.

VerStr(v) == ToString(v)
\* The release tag of version v.
Tag(v) == <<"v", VerStr(v)>>
\* What "<binary> --version" prints, as tokens.
VersionOutput(v) == <<"fixpanic-connectivity-layer", " v", VerStr(v), " ", "-">>

\* Index of the first token of s at or after i that is in stops, Len(s)+1 if none.
RECURSIVE FirstAt(_, _, _)
FirstAt(s, i, stops) ==
    IF i > Len(s) THEN Len(s) + 1
    ELSE IF s[i] \in stops THEN i ELSE FirstAt(s, i + 1, stops)

\* IsAgentUpdateAvailable's extraction: the text after the first " v" up to
\* the next blank, with "v" put before it; the whole output if there is no " v".
CleanVersion(out) ==
    LET i == FirstAt(out, 1, {" v"})
    IN IF i > Len(out) THEN out
       ELSE <<"v">> \o SubSeq(out, i + 1, FirstAt(out, i + 1, {" ", " v"}) - 1)

\* The version of a binary file, 0 if the file is no complete release.
VersionOf(f) ==
    IF IsCompleteBinary(f) THEN CHOOSE v \in Versions : f.data = Binary(v) ELSE 0

----------------------------------------------------------------------------
\* Stopping agent processes (getAllAgentProcessPIDs, ProcessManager.StopProcess).

\* The pids "ps aux" lists for the agent.
AgentPids == {p \in Pids : procs[p] # "absent"}

\* A successful StopProcess: the signal is delivered, the process has yet to exit.
AfterSignals(ok) == [p \in Pids |-> IF p \in ok THEN "terminating" ELSE procs[p]]

----------------------------------------------------------------------------
\* fixpanic agent start (runAgentStart), also called by upgrade.

\* runAgentStart returns res: to the shell, or to runAgentUpgrade, which logs
\* a failure as a warning and returns nil.
StartReturn(rec, res) ==
    LET rec2 == [rec EXCEPT !.startRes = res]
    IN IF rec.cmd = "upgrade"
       THEN Return(IF res = "nil" THEN rec2 ELSE Warn(rec2, "failed to restart agent"), "nil")
       ELSE Return(rec2, res)

\* "fixpanic agent start" typed at the shell.
StartBegin(r) ==
    /\ run[r].pc = "idle"
    /\ run' = [run EXCEPT ![r] =
                Goto([IdleRun EXCEPT !.cmd = "start", !.pre = Snapshot], "st_check")]
    /\ UNCHANGED hostVars

\* GetPlatformInfo and validateAgentInstall.
StartValidate(r) ==
    /\ run[r].pc = "st_check"
    /\ \/ run' = [run EXCEPT ![r] = StartReturn(@, "failed to get platform info")]
       \/ run' = [run EXCEPT ![r] =
                    IF IsFixPanicAgentInstalled THEN Goto(@, "st_clean")
                    ELSE StartReturn(@, "FixPanic Agent not installed")]
    /\ UNCHANGED hostVars

\* cleanUpOldAgents going on to the start when no process could be stopped.
StartCleanUpLenient(r) ==
    /\ run[r].pc = "st_clean"
    /\ \E ok \in SUBSET AgentPids :
            /\ procs' = AfterSignals(ok)
            /\ run' = [run EXCEPT ![r] =
                        Goto([@ EXCEPT !.oldFound = AgentPids, !.oldStopped = ok],
                             "st_service")]
    /\ UNCHANGED <<cliVars, eval, bin, tmp, config, svcFile, svcPid, svcEnabled, dirs, systemd, latest>>

\* cleanUpOldAgents: stop every agent process found; an error if processes
\* were found and none could be stopped. oldFound are the pids found,
\* oldStopped those on which StopProcess succeeded.
StartCleanUp(r) ==
    /\ run[r].pc = "st_clean"
    /\ \/ /\ run' = [run EXCEPT ![r] =
                      StartReturn(@, "failed to check for existing agent processes")]
          /\ procs' = procs
       \/ \E ok \in SUBSET AgentPids :
            /\ procs' = AfterSignals(ok)
            /\ run' = [run EXCEPT ![r] =
                        LET rec == [@ EXCEPT !.oldFound = AgentPids, !.oldStopped = ok]
                        IN IF AgentPids # {} /\ ok = {}
                           THEN StartReturn(rec, "failed to stop any existing agent processes")
                           ELSE Goto(rec, "st_service")]
    /\ UNCHANGED <<cliVars, eval, bin, tmp, config, svcFile, svcPid, svcEnabled, dirs, systemd, latest>>

\* What "systemctl is-active" may report as active: an active unit whose
\* process was signalled may already count as stopping.
StatusActive == IF ~SvcActive THEN {FALSE}
                ELSE IF procs[svcPid] = "terminating" THEN BOOLEAN ELSE {TRUE}

\* The ProcessConfig startAgentService passes to StartProcess.
AgentProcessConfig ==
    [BinaryPath |-> "GetFixPanicAgentBinaryPath",
     Args |-> <<"--config", "GetConfigPath">>, Detach |-> TRUE]

\* UnixProcessManager.StartProcess: exec.Command(BinaryPath, Args...), with
\* Setsid and Setpgid when Detach is set.
StartProcess(cfg) ==
    [cmdline |-> <<cfg.BinaryPath>> \o cfg.Args,
     setsid |-> cfg.Detach, setpgid |-> cfg.Detach]

\* The service manager first and, when starting the service fails, the
\* spawned process after all.
StartServiceFallsBack(r) ==
    /\ run[r].pc = "st_service"
    /\ FreePids # {}
    /\ procs' = [procs EXCEPT ![NewPid] = "running"]
    /\ svcPid' = svcPid
    /\ run' = [run EXCEPT ![r] =
                StartReturn([@ EXCEPT !.launch = IF systemd THEN "service" ELSE "spawn",
                                      !.spawned = StartProcess(AgentProcessConfig)], "nil")]
    /\ UNCHANGED <<cliVars, eval, bin, tmp, config, svcFile, svcEnabled, dirs, systemd, latest>>

\* startAgentService: with systemd the service manager, else a spawned process.
StartService(r) ==
    /\ run[r].pc = "st_service"
    /\ IF systemd
       THEN \E active \in StatusActive :
              IF active
              THEN /\ run' = [run EXCEPT ![r] = StartReturn([@ EXCEPT !.launch = "already"], "nil")]
                   /\ UNCHANGED <<svcPid, procs>>
              ELSE \/ /\ run' = [run EXCEPT ![r] =
                                  StartReturn([@ EXCEPT !.launch = "service"],
                                              "failed to start service")]
                      /\ UNCHANGED <<svcPid, procs>>
                   \/ /\ SvcStartOk
                      /\ run' = [run EXCEPT ![r] =
                                  StartReturn([@ EXCEPT !.launch = "service"], "nil")]
       ELSE \/ /\ run' = [run EXCEPT ![r] =
                            StartReturn([@ EXCEPT !.launch = "spawn"], "failed to start agent")]
               /\ UNCHANGED <<svcPid, procs>>
            \/ /\ FreePids # {}
               /\ procs' = [procs EXCEPT ![NewPid] = "running"]
               /\ svcPid' = svcPid
               /\ run' = [run EXCEPT ![r] =
                           StartReturn([@ EXCEPT !.launch = "spawn",
                                                 !.spawned = StartProcess(AgentProcessConfig)],
                                       "nil")]
    /\ UNCHANGED <<cliVars, eval, bin, tmp, config, svcFile, svcEnabled, dirs, systemd, latest>>

----------------------------------------------------------------------------
\* fixpanic agent stop and fixpanic agent restart (runAgentRestart).

\* stopAgent / agentStopCmd's RunE: StopProcess succeeded on the pids in ok,
\* of those "ps aux" listed; psOk is whether getAllAgentProcessPIDs worked.
StopAgentResult(psOk, ok) ==
    IF ~psOk THEN "failed to check agent status"
    ELSE IF AgentPids = {} THEN "nil"
    ELSE IF ok = {} THEN "failed to stop any agent processes"
    ELSE "nil"

\* fixpanic agent stop.
AgentStop(r) ==
    /\ run[r].pc = "idle"
    /\ \E psOk \in BOOLEAN, ok \in SUBSET AgentPids :
        /\ ~psOk => ok = {}
        /\ procs' = AfterSignals(ok)
        /\ run' = [run EXCEPT ![r] =
                    Return([IdleRun EXCEPT !.cmd = "stop", !.pre = Snapshot,
                                           !.found = IF psOk THEN AgentPids ELSE {},
                                           !.sent = IF psOk THEN AgentPids ELSE {},
                                           !.stopped = ok,
                                           !.stopRes = StopAgentResult(psOk, ok)],
                           StopAgentResult(psOk, ok))]
    /\ UNCHANGED <<cliVars, eval, bin, tmp, config, svcFile, svcPid, svcEnabled, dirs,
                   systemd, latest>>

\* "fixpanic agent restart" typed at the shell.
RestartBegin(r) ==
    /\ run[r].pc = "idle"
    /\ run' = [run EXCEPT ![r] =
                Goto([IdleRun EXCEPT !.cmd = "restart", !.pre = Snapshot], "rs_stop")]
    /\ UNCHANGED hostVars

\* A failed stop step returned as the command's error.
RestartStopAborts(r) ==
    /\ At(r, "restart", "rs_stop")
    /\ \E psOk \in BOOLEAN, ok \in SUBSET AgentPids :
        /\ ~psOk => ok = {}
        /\ procs' = AfterSignals(ok)
        /\ run' = [run EXCEPT ![r] =
                    LET rec == [@ EXCEPT !.stopped = ok,
                                         !.stopRes = StopAgentResult(psOk, ok)]
                    IN IF StopAgentResult(psOk, ok) = "nil"
                       THEN Goto([rec EXCEPT !.started = TRUE], "st_check")
                       ELSE Return(rec, StopAgentResult(psOk, ok))]
    /\ UNCHANGED <<cliVars, eval, bin, tmp, config, svcFile, svcPid, svcEnabled, dirs,
                   systemd, latest>>

\* Step 1 of restart: stopAgent, whose error is only a warning; then the
\* start step is entered.
RestartStop(r) ==
    /\ At(r, "restart", "rs_stop")
    /\ \E psOk \in BOOLEAN, ok \in SUBSET AgentPids :
        /\ ~psOk => ok = {}
        /\ procs' = AfterSignals(ok)
        /\ run' = [run EXCEPT ![r] =
                    LET rec == [@ EXCEPT !.found = IF psOk THEN AgentPids ELSE {},
                                         !.sent = IF psOk THEN AgentPids ELSE {},
                                         !.stopped = ok,
                                         !.stopRes = StopAgentResult(psOk, ok),
                                         !.started = TRUE]
                    IN Goto(IF StopAgentResult(psOk, ok) = "nil" THEN rec
                            ELSE Warn(rec, "stop failed"), "st_check")]
    /\ UNCHANGED <<cliVars, eval, bin, tmp, config, svcFile, svcPid, svcEnabled, dirs,
                   systemd, latest>>

----------------------------------------------------------------------------
\* fixpanic agent upgrade (runAgentUpgrade).

\* GetPlatformInfo and the installed check.
UpgradeBegin(r) ==
    /\ run[r].pc = "idle"
    /\ \E f \in BOOLEAN :
        LET rec == [IdleRun EXCEPT !.cmd = "upgrade", !.force = f, !.pre = Snapshot]
        IN \/ run' = [run EXCEPT ![r] = Return(rec, "failed to get platform info")]
           \/ run' = [run EXCEPT ![r] =
                        IF IsFixPanicAgentInstalled THEN Goto(rec, "up_stop")
                        ELSE Return(rec, "FixPanic Agent is not installed")]
    /\ UNCHANGED hostVars

\* agentWasRunning set as soon as a process was found.
WasRunningAnyFound(found, ok) == found # {}

\* agentWasRunning as the stop loop sets it: stoppedCount > 0.
WasRunning(found, ok) == ok # {}

\* Step 3: getAllAgentProcessPIDs; a failure is only a warning.
UpgradeFind(r) ==
    /\ At(r, "upgrade", "up_stop")
    /\ \/ run' = [run EXCEPT ![r] =
                    Goto(Warn(@, "failed to check agent status"), "up_ensure")]
       \/ run' = [run EXCEPT ![r] =
                    Goto([@ EXCEPT !.found = AgentPids, !.todo = AgentPids], "up_stop_loop")]
    /\ UNCHANGED hostVars

\* The pid the stop loop handles next.
NextPid(todo) == CHOOSE p \in todo : \A q \in todo : p <= q

\* Step 3, the loop: StopProcess on each pid found; after the last one,
\* agentWasRunning is set if any stop succeeded.
UpgradeStopOne(r) ==
    /\ At(r, "upgrade", "up_stop_loop")
    /\ IF run[r].todo = {}
       THEN /\ run' = [run EXCEPT ![r] =
                        Goto([@ EXCEPT !.wasRunning = WasRunning(run[r].found, run[r].stopped)],
                             "up_ensure")]
            /\ procs' = procs
       ELSE LET p == NextPid(run[r].todo)
            IN \/ /\ procs[p] # "absent"
                  /\ procs' = AfterSignals({p})
                  /\ run' = [run EXCEPT ![r] =
                              [@ EXCEPT !.todo = @ \ {p}, !.sent = @ \cup {p},
                                        !.stopped = @ \cup {p}]]
               \/ /\ procs' = procs
                  /\ run' = [run EXCEPT ![r] =
                              Warn([@ EXCEPT !.todo = @ \ {p}, !.sent = @ \cup {p}],
                                   "failed to stop process")]
    /\ UNCHANGED <<cliVars, eval, bin, tmp, config, svcFile, svcPid, svcEnabled, dirs, systemd, latest>>

\* Step 4, EnsureLatestAgent up to its decision: a failed update check only
\* warns and keeps the binary; an available update is downloaded.
UpgradeEnsure(r) ==
    /\ At(r, "upgrade", "up_ensure")
    /\ IF ~IsFixPanicAgentInstalled
       THEN run' = [run EXCEPT ![r] = Goto(@, "dl_get")]
       ELSE \/ run' = [run EXCEPT ![r] =
                        Goto(Warn([@ EXCEPT !.ensured = TRUE], "failed to check for updates"),
                             "up_verify")]
            \/ /\ VersionOf(bin) # 0
               /\ run' = [run EXCEPT ![r] =
                            IF CleanVersion(VersionOutput(VersionOf(bin))) # Tag(latest)
                            THEN Goto(@, "dl_get")
                            ELSE Goto([@ EXCEPT !.ensured = TRUE], "up_verify")]
    /\ UNCHANGED hostVars

\* After EnsureLatestAgent returned nil: report, then restart the agent if it
\* was running before.
UpgradeVerify(r) ==
    /\ At(r, "upgrade", "up_verify")
    /\ run' = [run EXCEPT ![r] =
                IF run[r].wasRunning
                THEN Goto([@ EXCEPT !.ensured = TRUE, !.started = TRUE], "st_check")
                ELSE Return([@ EXCEPT !.ensured = TRUE], "nil")]
    /\ UNCHANGED hostVars

----------------------------------------------------------------------------
\* fixpanic upgrade (runUpgrade): the CLI replaces its own binary.

\* The invocation before it begins. version is getCurrentVersion() (0 is
\* "dev"), tag the latest release's tag_name.
IdleUp == [pc |-> "idle", force |-> FALSE, check |-> FALSE, result |-> "none",
           version |-> 0, tag |-> 0, apiGets |-> 0, dlGets |-> 0, off |-> 0,
           warnings |-> {}, renamed |-> "none", restored |-> "none",
           removed |-> "none",
           pre |-> [current |-> NoFile, backup |-> NoFile]]

\* No computation of the platform functions under way.
NoPlat == [phase |-> "none"]

\* A host on which release 1 of the CLI is installed and no upgrade runs.
CliIdle ==
    /\ current = File(Binary(1), "0755")
    /\ backup = NoFile
    /\ newBinary = NoFile
    /\ up = IdleUp
    /\ plat = NoPlat

\* runUpgrade returns res; the deferred os.RemoveAll of the temporary
\* directory is registered once downloadNewVersion has succeeded.
UpReturn(rec, res) == [rec EXCEPT !.pc = "done", !.result = res]
UpWarn(rec, w) == [rec EXCEPT !.warnings = @ \cup {w}]

\* getCurrentVersion and getLatestRelease.
SelfBegin ==
    /\ up.pc = "idle"
    /\ IsCompleteBinary(current) /\ current.mode = "0755"
    /\ \E f, c \in BOOLEAN, ver \in {0, VersionOf(current)} :
        LET rec == [IdleUp EXCEPT !.force = f, !.check = c, !.version = ver,
                                  !.apiGets = 1,
                                  !.pre = [current |-> current, backup |-> backup]]
        IN \/ up' = UpReturn(rec, "failed to fetch latest release")
           \/ \E t \in Versions : up' = [rec EXCEPT !.tag = t, !.pc = "compare"]
    /\ UNCHANGED <<bin, tmp, config, svcFile, svcPid, svcEnabled, dirs, systemd,
                   latest, procs, run, eval, current, backup, newBinary, plat>>

\* The --check flag not looked at.
SelfCompareIgnoresCheck ==
    /\ up.pc = "compare"
    /\ up' = IF ~up.force /\ up.version = up.tag THEN UpReturn(up, "nil")
             ELSE [up EXCEPT !.pc = "download"]
    /\ UNCHANGED <<bin, tmp, config, svcFile, svcPid, svcEnabled, dirs, systemd,
                   latest, procs, run, eval, current, backup, newBinary, plat>>

\* The comparison of the versions, the --check return, getCurrentBinaryPath.
SelfCompare ==
    /\ up.pc = "compare"
    /\ IF ~up.force /\ up.version = up.tag THEN up' = UpReturn(up, "nil")
       ELSE IF up.check THEN up' = UpReturn(up, "nil")
       ELSE \/ up' = UpReturn(up, "failed to get current binary path")
            \/ up' = [up EXCEPT !.pc = "download"]
    /\ UNCHANGED <<bin, tmp, config, svcFile, svcPid, svcEnabled, dirs, systemd,
                   latest, procs, run, eval, current, backup, newBinary, plat>>

\* downloadNewVersion up to the response: the asset of this platform, the
\* temporary directory, one client.Get and its status code.
SelfDownloadGet ==
    /\ up.pc = "download"
    /\ \/ \E e \in {"no binary found for platform", "failed to create temp directory"} :
            up' = UpReturn(up, e)
       \/ \E e \in {"download failed", "download failed: HTTP status"} :
            up' = UpReturn([up EXCEPT !.dlGets = @ + 1], e)
       \/ up' = [up EXCEPT !.dlGets = @ + 1, !.pc = "save"]
    /\ UNCHANGED <<bin, tmp, config, svcFile, svcPid, svcEnabled, dirs, systemd,
                   latest, procs, run, eval, current, backup, newBinary, plat>>

\* downloadNewVersion from the response on: save, sync, close, extract, chmod.
SelfDownloadSave ==
    /\ up.pc = "save"
    /\ \/ /\ \E e \in {"failed to create temp file", "failed to save download",
                       "failed to extract binary", "failed to make binary executable"} :
                up' = UpReturn(up, e)
          /\ newBinary' = newBinary
       \/ /\ newBinary' = File(Binary(up.tag), "0755")
          /\ up' = [up EXCEPT !.pc = "verify"]
    /\ UNCHANGED <<bin, tmp, config, svcFile, svcPid, svcEnabled, dirs, systemd,
                   latest, procs, run, eval, current, backup, plat>>

\* verifyNewBinary: os.Stat, the executable bits, the size.
SelfVerify ==
    /\ up.pc = "verify"
    /\ \/ /\ up' = UpReturn(up, "failed to verify new binary")
          /\ newBinary' = NoFile
       \/ /\ newBinary.exists /\ newBinary.mode = "0755"
          /\ up' = [up EXCEPT !.pc = "backup_open"]
          /\ newBinary' = newBinary
    /\ UNCHANGED <<bin, tmp, config, svcFile, svcPid, svcEnabled, dirs, systemd,
                   latest, procs, run, eval, current, backup, plat>>

\* replaceBinary, copyFile(currentPath, backupPath): os.Open of the source
\* and os.Create of the backup; a failure is only a warning.
SelfBackupOpen ==
    /\ up.pc = "backup_open"
    /\ \/ /\ up' = [UpWarn(up, "failed to create backup") EXCEPT !.pc = "rename"]
          /\ backup' = backup
       \/ /\ current.exists
          /\ backup' = OpenTrunc(backup, "0644")
          /\ up' = [up EXCEPT !.off = 0, !.pc = "backup_copy"]
    /\ UNCHANGED <<bin, tmp, config, svcFile, svcPid, svcEnabled, dirs, systemd,
                   latest, procs, run, eval, current, newBinary, plat>>
\* copyFile: one write of io.Copy(destFile, sourceFile); a failure is only a
\* warning and leaves what was written so far.
SelfBackupCopy ==
    /\ up.pc = "backup_copy"
    /\ \/ /\ up' = [UpWarn(up, "failed to create backup") EXCEPT !.pc = "rename"]
          /\ backup' = backup
       \/ /\ up.off < Len(current.data)
          /\ backup' = [backup EXCEPT
                          !.data = WriteAt(@, up.off, <<current.data[up.off + 1]>>, 0)]
          /\ up' = [up EXCEPT !.off = @ + 1,
                              !.pc = IF up.off + 1 = Len(current.data) THEN "rename"
                                     ELSE "backup_copy"]
    /\ UNCHANGED <<bin, tmp, config, svcFile, svcPid, svcEnabled, dirs, systemd,
                   latest, procs, run, eval, current, newBinary, plat>>
\* replaceBinary: os.Rename(newPath, currentPath).
SelfRename ==
    /\ up.pc = "rename"
    /\ \/ /\ newBinary.exists
          /\ current' = newBinary
          /\ newBinary' = NoFile
          /\ up' = [up EXCEPT !.renamed = "ok", !.pc = "chmod"]
       \/ /\ UNCHANGED <<current, newBinary>>
          /\ up' = [up EXCEPT !.renamed = "failed", !.pc = "restore"]
    /\ UNCHANGED <<bin, tmp, config, svcFile, svcPid, svcEnabled, dirs, systemd,
                   latest, procs, run, eval, backup, plat>>
\* The failed rename returned as it is, the backup left where it is.
SelfRestoreSkipped ==
    /\ up.pc = "restore"
    /\ up' = UpReturn(up, "failed to replace binary")
    /\ newBinary' = NoFile
    /\ UNCHANGED <<current, backup>>
    /\ UNCHANGED <<bin, tmp, config, svcFile, svcPid, svcEnabled, dirs, systemd,
                   latest, procs, run, eval, plat>>
\* replaceBinary after a failed rename: os.Rename(backupPath, currentPath),
\* and the error that says whether it worked.
SelfRestore ==
    /\ up.pc = "restore"
    /\ \/ /\ backup.exists
          /\ current' = backup
          /\ backup' = NoFile
          /\ up' = UpReturn([up EXCEPT !.restored = "ok"],
                            "failed to replace binary (backup restored)")
       \/ /\ UNCHANGED <<current, backup>>
          /\ up' = UpReturn([up EXCEPT !.restored = "failed"],
                            "failed to replace binary and failed to restore backup")
    /\ newBinary' = NoFile
    /\ UNCHANGED <<bin, tmp, config, svcFile, svcPid, svcEnabled, dirs, systemd,
                   latest, procs, run, eval, plat>>
\* replaceBinary: os.Chmod(currentPath, 0755); a failure is only a warning.
SelfChmod ==
    /\ up.pc = "chmod"
    /\ \/ /\ current' = [current EXCEPT !.mode = "0755"]
          /\ up' = [up EXCEPT !.pc = "cleanup"]
       \/ /\ current' = current
          /\ up' = [UpWarn(up, "failed to set executable permissions")
                        EXCEPT !.pc = "cleanup"]
    /\ UNCHANGED <<bin, tmp, config, svcFile, svcPid, svcEnabled, dirs, systemd,
                   latest, procs, run, eval, backup, newBinary, plat>>
\* replaceBinary: os.Remove(backupPath); a failure is only a warning.
SelfRemoveBackup ==
    /\ up.pc = "cleanup"
    /\ \/ /\ backup.exists
          /\ backup' = NoFile
          /\ up' = [up EXCEPT !.removed = "ok", !.pc = "verify_upgrade"]
       \/ /\ backup' = backup
          /\ up' = [UpWarn(up, "failed to remove backup file")
                        EXCEPT !.removed = "failed", !.pc = "verify_upgrade"]
    /\ UNCHANGED <<bin, tmp, config, svcFile, svcPid, svcEnabled, dirs, systemd,
                   latest, procs, run, eval, current, newBinary, plat>>
\* verifyUpgrade (a failure is only a warning), then runUpgrade returns nil.
SelfVerifyUpgrade ==
    /\ up.pc = "verify_upgrade"
    /\ \/ up' = UpReturn(up, "nil")
       \/ up' = UpReturn(UpWarn(up, "upgrade completed but verification failed"), "nil")
    /\ newBinary' = NoFile
    /\ UNCHANGED <<bin, tmp, config, svcFile, svcPid, svcEnabled, dirs, systemd,
                   latest, procs, run, eval, current, backup, plat>>
\* The process of the finished upgrade exits.
SelfExit ==
    /\ up.pc = "done"
    /\ up' = IdleUp
    /\ UNCHANGED <<bin, tmp, config, svcFile, svcPid, svcEnabled, dirs, systemd,
                   latest, procs, run, eval, current, backup, newBinary, plat>>
runUpgrade ==
    \/ SelfBegin \/ SelfCompare \/ SelfDownloadGet \/ SelfDownloadSave \/ SelfVerify
    \/ SelfBackupOpen \/ SelfBackupCopy \/ SelfRename \/ SelfRestore \/ SelfChmod
    \/ SelfRemoveBackup \/ SelfVerifyUpgrade

----------------------------------------------------------------------------
\* Download URL and binary name of the agent (internal/platform). Strings
\* are sequences of tokens.

\* Values of runtime.GOOS and runtime.GOARCH, and of the version argument.
GoOSes == {"linux", "darwin", "windows", "freebsd"}
GoArches == {"amd64", "arm64", "386", "arm", "riscv64"}
VersionArgs == {"latest", "v1.2.3", "v2.0.0"}

\* GetFixPanicAgentPlatformInfo: the two switches.
GetFixPanicAgentPlatformInfo(goos, goarch) ==
    LET os == IF goos \in {"linux", "darwin", "windows"} THEN goos ELSE ""
        arch == IF goarch \in {"amd64", "x86_64"} THEN "amd64"
                ELSE IF goarch \in {"arm64", "aarch64"} THEN "arm64"
                ELSE IF goarch \in {"386", "i386", "i686"} THEN "386"
                ELSE IF goarch \in {"arm", "armv7"} THEN "arm"
                ELSE ""
    IN IF os = "" THEN [os |-> "", arch |-> "", err |-> "unsupported operating system"]
       ELSE IF arch = "" THEN [os |-> "", arch |-> "", err |-> "unsupported architecture"]
       ELSE [os |-> os, arch |-> arch, err |-> "nil"]

baseURL == "https://github.com/fixpanic/fixpanic-connectivity-layer-release/releases"

\* GetFixPanicAgentDownloadURL: the two Sprintf formats.
GetFixPanicAgentDownloadURL(goos, goarch, version) ==
    LET pi == GetFixPanicAgentPlatformInfo(goos, goarch)
    IN IF pi.err # "nil" THEN [url |-> <<>>, err |-> "failed to get platform info"]
       ELSE IF version = "latest"
       THEN [url |-> <<baseURL, "/", "latest", "/", "download", "/",
                       "fixpanic-connectivity-layer", "-", pi.os, "-", pi.arch>>,
             err |-> "nil"]
       ELSE [url |-> <<baseURL, "/", "download", "/", version, "/",
                       "fixpanic-connectivity-layer", "-", pi.os, "-", pi.arch>>,
             err |-> "nil"]

\* GetFixPanicAgentBinaryName.
GetFixPanicAgentBinaryName(goos) ==
    IF goos = "windows" THEN <<"fixpanic-connectivity-layer", ".exe">>
    ELSE <<"fixpanic-connectivity-layer">>

\* The functions are called on this platform with this version.
ComputePlatform ==
    /\ plat.phase = "input"
    /\ plat' = [plat EXCEPT
                  !.phase = "done",
                  !.info = GetFixPanicAgentPlatformInfo(plat.goos, plat.goarch),
                  !.dl = GetFixPanicAgentDownloadURL(plat.goos, plat.goarch, plat.version),
                  !.name = GetFixPanicAgentBinaryName(plat.goos)]
    /\ UNCHANGED <<bin, tmp, config, svcFile, svcPid, svcEnabled, dirs, systemd,
                   latest, procs, run, eval, current, backup, newBinary, up>>

----------------------------------------------------------------------------
\* The environment and the shell.

\* The process of a finished invocation exits; the next one may begin.
Exit(r) ==
    /\ run[r].pc = "done"
    /\ run' = [run EXCEPT ![r] = IdleRun]
    /\ UNCHANGED hostVars

AllIdle == \A r \in Runs : run[r].pc = "idle"

\* A signalled agent process exits.
ProcExit(p) ==
    /\ procs[p] = "terminating"
    /\ procs' = [procs EXCEPT ![p] = "absent"]
    /\ svcPid' = IF svcPid = p THEN 0 ELSE svcPid
    /\ UNCHANGED <<cliVars, eval, bin, tmp, config, svcFile, svcEnabled, dirs, systemd, latest, run>>

\* A new release is published.
Publish ==
    /\ latest < MaxVersion
    /\ latest' = latest + 1
    /\ UNCHANGED <<cliVars, eval, bin, tmp, config, svcFile, svcPid, svcEnabled, dirs, systemd, procs, run>>

\* The installation guide's manual configuration: "tee agent.yaml" ...
ManualConfigData == <<"id:", "h", "key:", "k">>
ManualConfigTee ==
    /\ AllIdle
    /\ config' = [OpenTrunc(config, "0644") EXCEPT !.data = ManualConfigData]
    /\ dirs' = dirs \cup {"config"}
    /\ UNCHANGED <<cliVars, eval, bin, tmp, svcFile, svcPid, svcEnabled, systemd, latest, procs, run>>

\* ... followed by "chmod 600 agent.yaml".
ManualConfigChmod ==
    /\ AllIdle
    /\ config.exists
    /\ config' = [config EXCEPT !.mode = "0600"]
    /\ UNCHANGED <<cliVars, eval, bin, tmp, svcFile, svcPid, svcEnabled, dirs, systemd, latest, procs, run>>

----------------------------------------------------------------------------
\* Specifications.

\* A fresh host, before the first release is replaced by a newer one.
Init ==
    /\ bin = NoFile
    /\ tmp = NoFile
    /\ config = NoFile
    /\ svcFile = FALSE
    /\ svcPid = 0
    /\ svcEnabled = FALSE
    /\ dirs = {}
    /\ systemd \in BOOLEAN
    /\ latest = 1
    /\ procs = [p \in Pids |-> "absent"]
    /\ run = [r \in Runs |-> IdleRun]
    /\ eval = NoEval
    /\ CliIdle

Download(r) == DlGet(r) \/ DlCreate(r) \/ DlCopy(r) \/ DlChmod(r) \/ DlRename(r)

Install(r) ==
    \/ InstallBegin(r) \/ InstallCheck(r) \/ InstallConfigure(r)
    \/ SaveConfigOpen(r) \/ SaveConfigWrite(r)
    \/ InstallSvcUninstall(r) \/ InstallSvcInstall(r) \/ InstallSvcEnable(r)
    \/ InstallSvcStart(r)

Uninstall(r) ==
    UninstallBegin(r) \/ UninstallCheck(r) \/ UninstallService(r) \/ UninstallFiles(r)

\* One invocation at a time: install and uninstall, one after the other.
Next ==
    \/ Install("A") \/ Download("A") \/ Uninstall("A") \/ Exit("A")
    \/ Publish \/ ManualConfigTee \/ ManualConfigChmod

Spec == Init /\ [][Next]_vars

\* A host on which release 1 is installed and configured.
InitInstalled ==
    /\ bin = File(Binary(1), "0755")
    /\ tmp = NoFile
    /\ config = File(Marshal(InstallConfig(<<"a">>, <<"k">>, <<>>, <<>>)), "0600")
    /\ systemd \in BOOLEAN
    /\ svcFile = systemd
    /\ svcPid = 0
    /\ svcEnabled = systemd
    /\ dirs = AllDirs
    /\ latest = 1
    /\ procs = [p \in Pids |-> "absent"]
    /\ run = [r \in Runs |-> IdleRun]
    /\ eval = NoEval
    /\ CliIdle

Start(r) == StartBegin(r) \/ StartValidate(r) \/ StartCleanUp(r) \/ StartService(r)

Upgrade(r) ==
    \/ UpgradeBegin(r) \/ UpgradeFind(r) \/ UpgradeStopOne(r)
    \/ UpgradeEnsure(r) \/ UpgradeVerify(r)

\* One invocation at a time on an installed host: start and upgrade.
NextUpgrade ==
    \/ Upgrade("A") \/ Download("A") \/ Start("A") \/ Exit("A")
    \/ Publish \/ \E p \in Pids : ProcExit(p)

SpecUpgrade == InitInstalled /\ [][NextUpgrade]_vars

\* A rules file and a command to test against it.
InitRules ==
    /\ bin = NoFile
    /\ tmp = NoFile
    /\ config = NoFile
    /\ svcFile = FALSE
    /\ svcPid = 0
    /\ svcEnabled = FALSE
    /\ dirs = {}
    /\ systemd = FALSE
    /\ latest = 1
    /\ procs = [p \in Pids |-> "absent"]
    /\ run = [r \in Runs |-> IdleRun]
    /\ CliIdle
    /\ \E d \in PatternLists(MaxRules), a \in PatternLists(MaxRules), c \in Commands :
            eval = [phase |-> "loaded", deny |-> d, allow |-> a, command |-> c,
                    allowed |-> FALSE]

NextRules == EvaluateRules

SpecRules == InitRules /\ [][NextRules]_vars

\* The CLI upgrading itself, one invocation after the other.
NextSelf == runUpgrade \/ SelfExit

SpecSelf == Init /\ [][NextSelf]_vars

\* A platform and a version for which the URL and the name are computed.
InitPlatform ==
    /\ bin = NoFile
    /\ tmp = NoFile
    /\ config = NoFile
    /\ svcFile = FALSE
    /\ svcPid = 0
    /\ svcEnabled = FALSE
    /\ dirs = {}
    /\ systemd = FALSE
    /\ latest = 1
    /\ procs = [p \in Pids |-> "absent"]
    /\ run = [r \in Runs |-> IdleRun]
    /\ eval = NoEval
    /\ current = File(Binary(1), "0755")
    /\ backup = NoFile
    /\ newBinary = NoFile
    /\ up = IdleUp
    /\ \E o \in GoOSes, a \in GoArches, v \in VersionArgs :
            plat = [phase |-> "input", goos |-> o, goarch |-> a, version |-> v,
                    info |-> [os |-> "", arch |-> "", err |-> "none"],
                    dl |-> [url |-> <<>>, err |-> "none"], name |-> <<>>]

NextPlatform == ComputePlatform

SpecPlatform == InitPlatform /\ [][NextPlatform]_vars

Restart(r) == RestartBegin(r) \/ RestartStop(r)

\* One invocation at a time on an installed host: start, stop and restart.
NextLifecycle ==
    \/ Start("A") \/ AgentStop("A") \/ Restart("A") \/ Exit("A")
    \/ \E p \in Pids : ProcExit(p)

SpecLifecycle == InitInstalled /\ [][NextLifecycle]_vars

\* Two simultaneous installs on a fresh host.
NextRace == \E r \in Runs : Install(r) \/ Download(r)

SpecRace == Init /\ [][NextRace]_vars

----------------------------------------------------------------------------
\* Properties.

UpgradeRuns == {r \in Runs : run[r].cmd = "upgrade"}
InstallRuns == {r \in Runs : run[r].cmd = "install"}
UninstallRuns == {r \in Runs : run[r].cmd = "uninstall"}

\* C1: agent upgrade stops, replaces, restarts: once the stop loop is left,
\* StopProcess has been called on every agent process found, which is before
\* EnsureLatestAgent begins; the agent is started again only after
\* EnsureLatestAgent returned, and when the command ends after the
\* replacement step, the start was invoked iff at least one process was stopped.
UpgradeStopsReplacesRestarts ==
    \A r \in UpgradeRuns :
        /\ run[r].pc # "up_stop_loop" => run[r].sent = run[r].found
        /\ run[r].pc \in {"up_stop", "up_stop_loop"} => run[r].gets = 0 /\ ~run[r].ensured
        /\ run[r].started => run[r].ensured /\ run[r].stopped # {}
        /\ run[r].pc = "done" /\ run[r].ensured =>
                (run[r].started <=> run[r].stopped # {})

\* C1 witness: an upgrade that found two processes, stopped only one of them,
\* replaced release 1 by release 2 and invoked the start.
UpgradeRestartedAfterReplace ==
    \E r \in UpgradeRuns :
        /\ run[r].pc = "done" /\ run[r].result = "nil"
        /\ Cardinality(run[r].found) = 2 /\ Cardinality(run[r].stopped) = 1
        /\ run[r].started
        /\ VersionOf(run[r].pre.bin) = 1 /\ VersionOf(bin) = 2

\* The errors Download / DownloadFixPanicAgent return.
DownloadErrors ==
    {"failed to download binary", "failed to download binary: HTTP status",
     "failed to create temporary file", "failed to save binary",
     "failed to make binary executable", "failed to move binary to final location"}

\* C2: the binary is written via temp file and rename: during and after a
\* download the binary path holds nothing or a complete binary, which is the
\* one from before the command or the complete executable body downloaded;
\* after a failed download it holds what it held before.
DownloadIsAtomic ==
    \A r \in InstallRuns \cup UpgradeRuns :
        /\ ~bin.exists \/ IsCompleteBinary(bin)
        /\ \/ bin = run[r].pre.bin
           \/ run[r].gets > 0 /\ bin = File(Binary(run[r].body), "0755")
        /\ run[r].pc = "done" /\ run[r].result \in DownloadErrors => bin = run[r].pre.bin

\* C2 witness: a forced reinstall over release 1 whose download of release 2
\* failed after the first chunk was written.
DownloadFailedHalfway ==
    \E r \in InstallRuns :
        /\ run[r].pc = "done" /\ run[r].result = "failed to save binary"
        /\ run[r].off = 1 /\ run[r].body = 2
        /\ VersionOf(run[r].pre.bin) = 1 /\ VersionOf(bin) = 1

\* C3 (as claimed): when agent upgrade returns without error the binary on
\* disk is the latest release (at least the one that was latest when the
\* command began).
UpgradeInstallsLatest ==
    \A r \in UpgradeRuns :
        run[r].pc = "done" /\ run[r].result = "nil" =>
            VersionOf(bin) >= run[r].pre.latest

\* Unless the update check failed, a successful upgrade leaves a binary at
\* least as new as the release that was latest when the command began.
UpgradeInstallsLatestIfChecked ==
    \A r \in UpgradeRuns :
        /\ run[r].pc = "done" /\ run[r].result = "nil"
        /\ "failed to check for updates" \notin run[r].warnings
        => VersionOf(bin) >= run[r].pre.latest

\* The errors install returns before it checks whether the agent is installed.
EarlyErrors == {"failed to get platform info", "failed to create directories"}

\* C4: install without --force on a host where the binary is installed does
\* no download and leaves binary, config file and unit file as they were,
\* and, having reached the check, ends with the already-installed error; with
\* --force the check does not stop it and the download is requested.
InstallIdempotentUnlessForce ==
    \A r \in InstallRuns :
        /\ run[r].pre.bin.exists /\ ~run[r].force =>
            /\ run[r].gets = 0
            /\ bin = run[r].pre.bin
            /\ config = run[r].pre.config
            /\ svcFile = run[r].pre.svcFile
            /\ run[r].pc \in {"in_check", "done"}
            /\ run[r].pc = "done" /\ run[r].result \notin EarlyErrors =>
                    run[r].result = "agent is already installed"
        /\ run[r].force /\ run[r].pc = "done" /\ run[r].result \notin EarlyErrors =>
            run[r].gets = 1 /\ run[r].result # "agent is already installed"

\* C4 witness: install without --force ended "already installed" on a host
\* with release 1 installed while release 2 is out.
InstallRefusedWhenInstalled ==
    \E r \in InstallRuns :
        /\ run[r].pc = "done" /\ run[r].result = "agent is already installed"
        /\ ~run[r].force
        /\ VersionOf(bin) = 1 /\ latest = 2 /\ config.exists

\* C5: uninstall on a host without the agent binary does not prompt, does not
\* touch the service, removes no file and no directory, and returns nil
\* (unless GetPlatformInfo failed).
UninstallNoOpWhenAbsent ==
    \A r \in UninstallRuns :
        ~run[r].pre.bin.exists =>
            /\ ~run[r].prompted
            /\ run[r].touched = {}
            /\ bin = run[r].pre.bin
            /\ config = run[r].pre.config
            /\ svcFile = run[r].pre.svcFile
            /\ svcPid = run[r].pre.svcPid
            /\ dirs = run[r].pre.dirs
            /\ run[r].pc = "done" => run[r].result \in {"nil", "failed to get platform info"}

\* C5 witness: uninstall returned nil on a host with no binary but with a
\* config file, a unit file, an active service and directories left.
UninstallNothingInstalled ==
    \E r \in UninstallRuns :
        /\ run[r].pc = "done" /\ run[r].result = "nil"
        /\ ~run[r].pre.bin.exists
        /\ config.exists /\ svcFile /\ svcPid # 0 /\ dirs = AllDirs

\* C6: whenever some deny pattern matches the command, isCommandAllowed
\* returns false, whatever the allow list holds and wherever the pattern is.
DenyTakesPrecedence ==
    eval.phase = "done" =>
        ((\E i \in 1..Len(eval.deny) : MatchString(eval.deny[i], eval.command))
            => eval.allowed = FALSE)

\* C6 witness: the first deny pattern does not compile, the second matches,
\* the first allow pattern matches too, and the verdict is denied.
DeniedDespiteAllow ==
    /\ eval.phase = "done" /\ ~eval.allowed
    /\ Len(eval.deny) = 2 /\ ~eval.deny[1].valid
    /\ MatchString(eval.deny[2], eval.command)
    /\ Len(eval.allow) > 0 /\ MatchString(eval.allow[1], eval.command)

\* The positions of install after SaveConfig was entered.
AfterValidate == {"cfg_open", "cfg_write", "svc_uninstall", "svc_install",
                  "svc_enable", "svc_start"}

\* C7: Validate returns an error whenever agent id or API key is empty (nil
\* only when both are set), in both versions of AgentConfig, and install
\* enters SaveConfig only with a configuration that validates, so every
\* config file install wrote holds a non-empty id and key.
ValidateRejectsEmpty ==
    \A r \in InstallRuns :
        /\ run[r].verr # "none" =>
            /\ (run[r].cfg.id = <<>> \/ run[r].cfg.key = <<>>) => run[r].verr # "nil"
            /\ run[r].verr = "nil" => run[r].cfg.id # <<>> /\ run[r].cfg.key # <<>>
            /\ (run[r].cfg.id = <<>> \/ run[r].cfg.key = <<>>) <=> ValidateApp(run[r].cfg) # "nil"
        /\ run[r].pc \in AfterValidate => run[r].verr = "nil"
        /\ run[r].verr # "nil" => config = run[r].pre.config
        /\ config.exists /\ config # run[r].pre.config /\ config.data # <<>> =>
            \E c \in Configs : /\ config.data = Marshal(c)
                               /\ c.id # <<>> /\ c.key # <<>>

\* C7 witness: install given an agent id and an empty API key ended with
\* "invalid configuration" and the config file was not written.
InstallRejectedEmptyKey ==
    \E r \in InstallRuns :
        /\ run[r].pc = "done" /\ run[r].result = "invalid configuration"
        /\ run[r].cfg.id # <<>> /\ run[r].cfg.key = <<>>
        /\ run[r].verr = "agent API key is required"
        /\ ~config.exists

\* C8 (as claimed): after a successful SaveConfig the config file's mode is
\* 0600, also when the file existed before with a wider mode.
ConfigOwnerOnly ==
    \A r \in InstallRuns :
        run[r].pc \in {"svc_uninstall", "svc_install", "svc_enable", "svc_start"}
            \/ (run[r].pc = "done" /\ run[r].result = "nil")
        => config.exists /\ config.mode = "0600"

\* The warnings install logs for its service steps.
ServiceWarnings == {"failed to remove old service", "failed to install systemd service",
                    "failed to enable service", "failed to start service"}

\* C9: a failure of a service step of install is logged as a warning and the
\* command goes on and returns nil, with the downloaded binary and the saved
\* configuration in place.
ServiceFailuresOnlyWarn ==
    \A r \in InstallRuns :
        /\ run[r].warnings \subseteq ServiceWarnings
        /\ run[r].warnings # {} =>
            /\ run[r].pc \in {"svc_install", "svc_enable", "svc_start", "done"}
            /\ run[r].pc = "done" => run[r].result = "nil"
            /\ bin = File(Binary(run[r].body), "0755")
            /\ config.exists /\ config.data = Marshal(run[r].cfg)

\* C9 witness: installing the service failed and install returned nil.
InstallSucceededWithoutService ==
    \E r \in InstallRuns :
        /\ run[r].pc = "done" /\ run[r].result = "nil"
        /\ "failed to install systemd service" \in run[r].warnings
        /\ ~svcFile

\* A binary that is no complete release; a config file that is not empty and
\* is no configuration's marshalled bytes.
TornBinary == bin.exists /\ ~IsCompleteBinary(bin)
TornConfig == config.exists /\ config.data # <<>> /\ \A c \in Configs : config.data # Marshal(c)

\* C10: two installs take no lock and share the temp file and the config
\* file: the binary or the config can end up as the complete output of
\* neither run (the witness); this happens only by the two runs interfering,
\* each having opened the file concerned.
TornOnlyByRace ==
    /\ TornBinary => \A r \in Runs : run[r].cmd = "install" /\ run[r].gets > 0
    /\ TornConfig => \A r \in Runs : run[r].cmd = "install" /\ run[r].verr = "nil"

\* C10 witness: both installs have returned, one of them without error, and
\* the binary is torn.
BothDoneBinaryTorn ==
    /\ \A r \in Runs : run[r].pc = "done"
    /\ \E r \in Runs : run[r].result = "nil"
    /\ TornBinary

\* Both installs have returned nil and the config file is torn.
BothDoneConfigTorn ==
    /\ \A r \in Runs : run[r].pc = "done" /\ run[r].result = "nil"
    /\ TornConfig

\* C11 (as claimed): whatever step of fixpanic upgrade fails, when the command
\* returns the current binary path holds a complete CLI binary, the old one
\* or the new one, never a missing or truncated file.
SelfReplaceIsSafe ==
    up.pc = "done" =>
        /\ current.exists
        /\ IsCompleteBinary(current)
        /\ VersionOf(current) \in {VersionOf(up.pre.current), up.tag}

\* The current binary is never missing, and it is complete unless a backup
\* was restored.
SelfReplaceSafeUnlessRestored ==
    /\ current.exists
    /\ up.pc # "idle" /\ up.restored # "ok" => IsCompleteBinary(current)

\* The errors replaceBinary returns after a failed rename.
RestoreErrors == {"failed to replace binary (backup restored)",
                  "failed to replace binary and failed to restore backup"}

\* C12 (as amended): after a failed rename of the new binary replaceBinary
\* renames the backup back and returns an error that says whether that
\* worked; after a successful rename it calls os.Remove on the backup, and a
\* backup remains only if that removal failed, which is logged as a warning.
SelfRestoresBackupOnRenameFailure ==
    /\ up.restored # "none" => up.renamed = "failed"
    /\ up.pc = "done" /\ up.renamed = "failed" =>
        /\ up.restored # "none"
        /\ up.result \in RestoreErrors
        /\ up.restored = "ok" <=> up.result = "failed to replace binary (backup restored)"
        /\ up.restored = "ok" => ~backup.exists
        /\ up.restored = "failed" => current = up.pre.current
    /\ up.pc = "done" /\ up.renamed = "ok" =>
        /\ up.result = "nil"
        /\ up.removed # "none"
        /\ backup.exists => "failed to remove backup file" \in up.warnings

\* C12 witness: the rename failed, the complete backup was renamed back, and
\* the command returned the error that says so.
SelfBackupRestored ==
    /\ up.pc = "done" /\ up.renamed = "failed" /\ up.restored = "ok"
    /\ up.result = "failed to replace binary (backup restored)"
    /\ up.warnings = {}
    /\ current.data = up.pre.current.data /\ ~backup.exists

\* C12 (as claimed): as above, and after a successful rename no backup remains.
SelfNoBackupRemains ==
    /\ SelfRestoresBackupOnRenameFailure
    /\ up.pc = "done" /\ up.renamed = "ok" => ~backup.exists

\* C16: with --check, and without --force when the current version is the
\* latest tag, fixpanic upgrade requests no asset and leaves the current
\* binary, the backup path and the temporary directory as they were.
CheckOnlyChangesNothing ==
    up.pc # "idle" /\ (up.check \/ (~up.force /\ up.pc # "compare" /\ up.version = up.tag)) =>
        /\ up.dlGets = 0
        /\ current = up.pre.current
        /\ backup = up.pre.backup
        /\ newBinary = NoFile
        /\ up.pc \in {"compare", "done"}
        /\ up.pc = "done" => up.result \in {"nil", "failed to fetch latest release"}

\* C16 witness: upgrade --check --force returned nil while a newer release
\* than the current version exists.
SelfCheckedOnly ==
    /\ up.pc = "done" /\ up.result = "nil"
    /\ up.check /\ up.force
    /\ up.version # 0 /\ up.tag > up.version
    /\ VersionOf(current) = up.version

\* The errors of a failed request for the asset.
SelfGetErrors == {"download failed", "download failed: HTTP status"}

\* C19 (as claimed): no request is repeated, except that the self-upgrade
\* download is tried again when it fails.
SelfDownloadIsRetried ==
    /\ up.apiGets <= 1
    /\ up.pc = "done" /\ up.result \in SelfGetErrors => up.dlGets > 1

\* install and agent upgrade request the agent binary at most once.
DownloadNeverRetried == \A r \in Runs : run[r].gets <= 1

\* fixpanic upgrade makes at most one request to the release API and at most
\* one request for the asset.
SelfNeverRetries == up.apiGets <= 1 /\ up.dlGets <= 1

\* p is a proper prefix of s.
IsProperPrefix(p, s) == Len(s) > Len(p) /\ SubSeq(s, 1, Len(p)) = p

\* The URL of the documented pattern
\* {base}/{version}/download/{binary-name}-{os}-{arch}[.exe].
PatternURL(version, os, arch) ==
    <<baseURL, "/", version, "/", "download", "/", "fixpanic-connectivity-layer",
      "-", os, "-", arch>> \o (IF os = "windows" THEN <<".exe">> ELSE <<>>)

\* C13 (as claimed): on a supported platform the URL has the documented
\* form for every version, with .exe on windows; on an unsupported one no URL
\* is produced and an error is returned.
URLMatchesPattern ==
    plat.phase = "done" =>
        IF plat.info.err = "nil"
        THEN /\ plat.dl.err = "nil"
             /\ plat.dl.url = PatternURL(plat.version, plat.info.os, plat.info.arch)
        ELSE plat.dl.err # "nil" /\ plat.dl.url = <<>>

\* The URL has the documented form for "latest" off windows, and an
\* unsupported platform gets an error and no URL.
URLMatchesPatternForLatestUnix ==
    plat.phase = "done" =>
        /\ plat.info.err = "nil" <=> plat.goos # "freebsd" /\ plat.goarch # "riscv64"
        /\ plat.info.err # "nil" => plat.dl.err # "nil" /\ plat.dl.url = <<>>
        /\ plat.info.err = "nil" /\ plat.version = "latest" /\ plat.goos # "windows" =>
            plat.dl.url = PatternURL(plat.version, plat.info.os, plat.info.arch)

\* C14 (as claimed): what the repository's test programs expect of the URL
\* for "latest" and of the binary name.
TestProgramsPass ==
    plat.phase = "done" =>
        /\ plat.version = "latest" /\ plat.dl.err = "nil" =>
            IsProperPrefix(<<"https://github.com/fixpanic/fixpanic-agent/releases", "/",
                             "latest", "/", "download", "/", "fixpanic-agent", "-">>,
                           plat.dl.url)
        /\ plat.name = IF plat.goos = "windows" THEN <<"fixpanic-agent", ".exe">>
                       ELSE <<"fixpanic-agent">>

\* C15 (as claimed): agent upgrade --force downloads and installs the latest
\* binary also when the installed version equals the latest release tag.
UpgradeForceDownloads ==
    \A r \in UpgradeRuns :
        /\ run[r].pc = "done" /\ run[r].result = "nil" /\ run[r].force
        /\ "failed to check for updates" \notin run[r].warnings
        => run[r].gets >= 1

RestartRuns == {r \in Runs : run[r].cmd = "restart"}
StartRuns == {r \in Runs : run[r].cmd = "start"}

\* C17: in agent restart the stop step has run before the start step is
\* entered, the start step is entered whether or not the stop step failed,
\* and restart returns an error iff the start step returned one.
RestartIsStopThenStart ==
    \A r \in RestartRuns :
        /\ run[r].started <=> run[r].stopRes # "none"
        /\ run[r].startRes # "none" => run[r].started
        /\ run[r].pc # "rs_stop" => run[r].started /\ run[r].sent = run[r].found
        /\ run[r].pc = "done" =>
            /\ run[r].startRes # "none"
            /\ run[r].result = "nil" <=> run[r].startRes = "nil"
            /\ run[r].result = run[r].startRes

\* C17 witness: the stop step failed to stop the one agent process it found,
\* and restart went on to start the agent and returned nil.
RestartedDespiteStopFailure ==
    \E r \in RestartRuns :
        /\ run[r].pc = "done" /\ run[r].result = "nil"
        /\ run[r].stopRes = "failed to stop any agent processes"
        /\ run[r].launch # "none"

\* C18: agent start launches through the service manager when systemd is
\* available and through StartProcess otherwise, never through both: with
\* systemd nothing is spawned, also when starting the service fails; without
\* it the process spawned runs the agent binary with --config <config path>
\* in a session of its own.
OneLaunchMechanism ==
    \A r \in Runs :
        /\ run[r].launch \in {"already", "service"} => systemd /\ run[r].spawned = NoSpawn
        /\ run[r].launch = "spawn" => ~systemd
        /\ systemd => run[r].spawned = NoSpawn
        /\ run[r].launch = "spawn" /\ run[r].startRes = "nil" =>
            /\ run[r].spawned.cmdline =
                  <<"GetFixPanicAgentBinaryPath", "--config", "GetConfigPath">>
            /\ run[r].spawned.setsid /\ run[r].spawned.setpgid
        /\ run[r].spawned # NoSpawn => run[r].launch = "spawn" /\ run[r].startRes = "nil"

\* C18 witness: on a host with systemd starting the service failed, agent
\* start returned that error and spawned nothing.
ServiceStartFailedNoFallback ==
    \E r \in StartRuns :
        /\ run[r].pc = "done" /\ run[r].result = "failed to start service"
        /\ systemd /\ run[r].launch = "service"
        /\ run[r].spawned = NoSpawn /\ AgentPids = {}

\* C20 (as claimed): when agent start has returned nil through the spawn
\* path, at most one agent process exists.
StartLeavesOneAgent ==
    \A r \in StartRuns :
        run[r].pc = "done" /\ run[r].result = "nil" /\ run[r].launch = "spawn" =>
            Cardinality(AgentPids) <= 1

\* C21 (as claimed): when agent upgrade has stopped an agent process, it has
\* invoked the start before it returns, whatever the replacement step did.
UpgradeAlwaysRestarts ==
    \A r \in UpgradeRuns :
        run[r].pc = "done" /\ run[r].stopped # {} => run[r].started

\* An upgrade that stopped an agent process returns without invoking the
\* start only with an error of the replacement step.
UpgradeRestartsUnlessReplaceFailed ==
    \A r \in UpgradeRuns :
        run[r].pc = "done" /\ run[r].stopped # {} /\ ~run[r].started =>
            run[r].result \in DownloadErrors

\* C22 (as claimed): agent start that reports the service as already running
\* has sent no stop to the service's process, which is running as before.
StartAlreadyRunningIsNoOp ==
    \A r \in StartRuns :
        run[r].launch = "already" =>
            /\ run[r].oldStopped = {}
            /\ run[r].pre.svcPid # 0
            /\ procs[run[r].pre.svcPid] = "running"

\* C23 (as claimed): an install that returns an error on a host without the
\* agent binary leaves the host without the agent binary.
FailedInstallLeavesNothing ==
    \A r \in InstallRuns :
        run[r].pc = "done" /\ run[r].result # "nil" /\ ~run[r].pre.bin.exists =>
            ~IsFixPanicAgentInstalled

\* A failed install leaves no binary when it failed before or in the download.
FailedDownloadLeavesNothing ==
    \A r \in InstallRuns :
        /\ run[r].pc = "done" /\ ~run[r].pre.bin.exists
        /\ run[r].result \in EarlyErrors \cup DownloadErrors
        => ~IsFixPanicAgentInstalled

\* C24: when cleanUpOldAgents found agent processes and StopProcess failed on
\* all of them, the start returns "failed to stop any existing agent
\* processes" without entering startAgentService: no service start, nothing
\* spawned, no process signalled; when StopProcess succeeded on at least one,
\* startAgentService is entered, whatever became of the others.
StartNeedsOneStopped ==
    \A r \in Runs :
        /\ run[r].oldFound # {} /\ run[r].oldStopped = {} =>
            /\ run[r].pc = "done"
            /\ run[r].startRes = "failed to stop any existing agent processes"
            /\ run[r].launch = "none" /\ run[r].spawned = NoSpawn
            /\ svcPid = run[r].pre.svcPid \/ svcPid = 0
        /\ run[r].startRes = "failed to stop any existing agent processes" =>
            run[r].oldFound # {} /\ run[r].oldStopped = {}
        /\ run[r].oldStopped # {} =>
            /\ run[r].oldStopped \subseteq run[r].oldFound
            /\ run[r].pc = "st_service" \/ run[r].launch # "none"

\* C24 witness: agent start found two agent processes, could stop neither,
\* and returned the error with both still running and nothing launched.
StartRefusedNoneStopped ==
    \E r \in StartRuns :
        /\ run[r].pc = "done"
        /\ run[r].result = "failed to stop any existing agent processes"
        /\ Cardinality(run[r].oldFound) = 2 /\ run[r].oldStopped = {}
        /\ \A p \in run[r].oldFound : procs[p] = "running"
        /\ run[r].launch = "none"

\* Agent start stopped one of two agent processes and spawned a new one
\* while the other old process is still running.
StartProceededOneStopped ==
    \E r \in StartRuns :
        /\ run[r].pc = "done" /\ run[r].result = "nil" /\ run[r].launch = "spawn"
        /\ Cardinality(run[r].oldFound) = 2 /\ Cardinality(run[r].oldStopped) = 1
        /\ \E p \in run[r].oldFound \ run[r].oldStopped : procs[p] = "running"

====
